---- MODULE Spec2Model ----
(***************************************************************************)
(* Model of dua-cli's aggregation engine (src/src/aggregate.rs) and of    *)
(* the mark pane of the interactive mode                                   *)
(* (src/src/interactive/widgets/mark.rs).                                  *)
(*                                                                         *)
(* Spec runs one call of aggregate, entry by entry; SpecOrder is the same  *)
(* call with the entries each root yields recorded, to compare yield       *)
(* orders; SpecMark drives a MarkPane through set_focus, key and           *)
(* toggle_index.                                                           *)
(***************************************************************************)
EXTENDS Integers, Sequences, FiniteSets, TLC

VARIABLES
    \* ---- aggregate(): arguments
    options,                \* WalkOptions: count_hard_links, apparent_size
    compute_total,
    sort_by_size_in_bytes,
    \* ---- aggregate(): locals
    pc,                     \* position inside aggregate()
    res_num_errors,         \* res.num_errors
    stats,                  \* Statistics
    total,
    num_roots,
    aggregates,
    inodes,                 \* InodeFilter
    num_bytes,
    num_errors,
    out,                    \* the lines written to the sink so far
    \* ---- aggregate(): history of the run (not program state)
    record_walk,            \* whether `walked` is recorded in this run
    walked,                 \* entries yielded so far for the current root, when recorded
    inodes0,                \* the inode filter when the current root started
    roots_log,              \* (num_bytes, num_errors) of every finished root
    seen,                   \* (device, inode) pairs of the files met so far
    last,                   \* the entry handled by the last step, and the values before it
    \* ---- MarkPane
    pane_some,              \* Option<MarkPane> held by the caller is Some
    selected,
    marked,
    has_focus,
    last_sorting_index,
    \* ---- MarkPane: history of the calls (not program state)
    op1,                    \* the last call and its argument
    op2,                    \* the call before it
    before1,                \* the pane before the last call
    before2,                \* the marked handles before the call before it
    clock,                  \* number of marks inserted so far
    marked_at               \* for each marked handle, the clock when it was marked

aggVars == <<options, compute_total, sort_by_size_in_bytes, pc, res_num_errors, stats,
             total, num_roots, aggregates, inodes, num_bytes, num_errors, out,
             record_walk, walked, inodes0, roots_log, seen, last>>
markVars == <<pane_some, selected, marked, has_focus, last_sorting_index,
              op1, op2, before1, before2, clock, marked_at>>
vars == <<aggVars, markVars>>

(***************************************************************************)
(* Bounds                                                                  *)
(***************************************************************************)
MaxRoots == 3          \* roots handed to one call of aggregate
MaxEntries == 3        \* entries the walks of one call yield, over all roots
MaxIndex == 3          \* tree handles are 0..MaxIndex
MaxSortIndex == 4      \* marks inserted into one pane

(***************************************************************************)
(* Helpers                                                                 *)
(***************************************************************************)
Min(a, b) == IF a <= b THEN a ELSE b
Max(a, b) == IF a >= b THEN a ELSE b
saturating_sub(a, b) == IF a >= b THEN a - b ELSE 0

\* u64::max_value(); stands for 2^64 - 1, above every size the model reaches
u64_max_value == 2147483647

(***************************************************************************)
(* The walk's output: what WalkOptions::iter_from_path yields for a root.  *)
(* An entry is a walk error, or carries metadata that is None, an error,   *)
(* a directory or a file.  A file is identified by its (device, inode)     *)
(* pair; real_ok tells whether the allocated size of this path can be      *)
(* obtained (filesize::file_real_size_fast is fallible per path).          *)
(***************************************************************************)
Files == {<<1, 1>>, <<2, 1>>}
NoFile == <<0, 0>>

\* m.len(): the apparent size
len(f) == IF f = <<1, 1>> THEN 1 ELSE 3
\* the allocated size, when it can be obtained
real_size(f) == IF f = <<1, 1>> THEN 2 ELSE 4

Entry(k, f, r) == [kind |-> k, file |-> f, real_ok |-> r]
Entries ==
    {Entry(k, NoFile, TRUE) : k \in {"walk_err", "meta_err", "meta_none", "dir"}}
        \cup {Entry("file", f, r) : f \in Files, r \in BOOLEAN}
NoEntry == Entry("none", NoFile, TRUE)

(***************************************************************************)
(* InodeFilter: a set of (device, inode) pairs; add is true exactly the    *)
(* first time a pair is seen.                                              *)
(***************************************************************************)
InodeFilter_default == {}
InodeFilter_add_result(filter, f) == f \notin filter
InodeFilter_add_state(filter, f) == filter \cup {f}

(***************************************************************************)
(* The size of one Ok(entry), lines 33-53: the bytes it contributes, the   *)
(* errors it counts, the inode filter afterwards, and whether the match    *)
(* hit unreachable!().                                                     *)
(***************************************************************************)
SizeResult(b, e, i, p) == [file_size |-> b, errors |-> e, inodes |-> i, panicked |-> p]

\* a guard that forgets the inode filter
counts_file_always(opts, filter, f) == TRUE

\* the guard of the first match arm: short-circuit, so add runs only when
\* count_hard_links is false
counts_file(opts, filter, f) == opts.count_hard_links \/ InodeFilter_add_result(filter, f)
filter_after(opts, filter, f) ==
    IF opts.count_hard_links THEN filter ELSE InodeFilter_add_state(filter, f)

file_size_of(entry, opts, filter) ==
    CASE entry.kind = "file" ->
            IF counts_file(opts, filter, entry.file)
            THEN IF opts.apparent_size
                 THEN SizeResult(len(entry.file), 0, filter_after(opts, filter, entry.file), FALSE)
                 ELSE IF entry.real_ok
                      THEN SizeResult(real_size(entry.file), 0,
                                      filter_after(opts, filter, entry.file), FALSE)
                      ELSE SizeResult(0, 1, filter_after(opts, filter, entry.file), FALSE)
            ELSE SizeResult(0, 0, filter_after(opts, filter, entry.file), FALSE)
      [] entry.kind = "dir" -> SizeResult(0, 0, filter, FALSE)
      [] entry.kind = "meta_err" -> SizeResult(0, 1, filter, FALSE)
      [] OTHER -> SizeResult(0, 0, filter, TRUE)       \* None => unreachable!()

(***************************************************************************)
(* write_path: one line of output.                                         *)
(***************************************************************************)
error_string(n) == IF n = 0 THEN "" ELSE IF n > 1 THEN "IO Errors" ELSE "IO Error"

Line(k, root, b, e) ==
    [kind |-> k, root |-> root, num_bytes |-> b, num_errors |-> e,
     error_string |-> error_string(e)]

write_path(sink, k, root, b, e) == Append(sink, Line(k, root, b, e))

(***************************************************************************)
(* aggregates.sort_by_key(|&(_, num_bytes, _)| num_bytes): a stable sort,  *)
(* ascending by num_bytes.                                                 *)
(***************************************************************************)
\* an insertion that puts a root before the roots of equal size: an unstable sort
RECURSIVE insert_unstable(_, _)
insert_unstable(sorted, x) ==
    IF sorted = <<>> THEN <<x>>
    ELSE IF Head(sorted).num_bytes < x.num_bytes
         THEN <<Head(sorted)>> \o insert_unstable(Tail(sorted), x)
         ELSE <<x>> \o sorted

RECURSIVE insert_sorted(_, _)
insert_sorted(sorted, x) ==
    IF sorted = <<>> THEN <<x>>
    ELSE IF Head(sorted).num_bytes <= x.num_bytes
         THEN <<Head(sorted)>> \o insert_sorted(Tail(sorted), x)
         ELSE <<x>> \o sorted

RECURSIVE sort_by_key(_)
sort_by_key(s) ==
    IF s = <<>> THEN <<>>
    ELSE insert_sorted(sort_by_key(SubSeq(s, 1, Len(s) - 1)), s[Len(s)])

\* a total written for a single root too
writes_total_single(roots, want_total) == roots >= 1 /\ want_total

\* line 96
writes_total(roots, want_total) == roots > 1 /\ want_total

Statistics_default == [entries_traversed |-> 0, smallest_file_in_bytes |-> 0,
                       largest_file_in_bytes |-> 0]

NoLast == [entry |-> NoEntry, file_size |-> 0, errors |-> 0, was_seen |-> FALSE]

(***************************************************************************)
(* aggregate(), lines 18-24                                                *)
(***************************************************************************)
MarkIdle ==
    /\ pane_some = TRUE
    /\ selected = -1
    /\ marked = <<>>
    /\ has_focus = FALSE
    /\ last_sorting_index = 0
    /\ op1 = [name |-> "new", arg |-> 0]
    /\ op2 = [name |-> "new", arg |-> 0]
    /\ before1 = [selected |-> -1, handles |-> {}, has_focus |-> FALSE,
                  last_sorting_index |-> 0]
    /\ before2 = {}
    /\ clock = 0
    /\ marked_at = <<>>

InitAggregate ==
    /\ options \in [count_hard_links : BOOLEAN, apparent_size : BOOLEAN]
    /\ compute_total \in BOOLEAN
    /\ sort_by_size_in_bytes \in BOOLEAN
    /\ pc = "roots"
    /\ res_num_errors = 0
    /\ stats = [Statistics_default EXCEPT !.smallest_file_in_bytes = u64_max_value]
    /\ total = 0
    /\ num_roots = 0
    /\ aggregates = <<>>
    /\ inodes = InodeFilter_default
    /\ num_bytes = 0
    /\ num_errors = 0
    /\ out = <<>>
    /\ walked = <<>>
    /\ inodes0 = {}
    /\ roots_log = <<>>
    /\ seen = {}
    /\ last = NoLast
    /\ MarkIdle

Init == InitAggregate /\ record_walk = FALSE

\* the same call, with the entries each root yields recorded
InitOrder == InitAggregate /\ record_walk = TRUE

\* lines 25-28: the next path of `paths`
NextRoot ==
    /\ pc = "roots"
    /\ num_roots < MaxRoots
    /\ num_roots' = num_roots + 1
    /\ num_bytes' = 0
    /\ num_errors' = 0
    /\ pc' = "walk"
    /\ walked' = <<>>
    /\ inodes0' = IF record_walk THEN inodes ELSE inodes0
    /\ last' = NoLast
    /\ UNCHANGED <<options, compute_total, sort_by_size_in_bytes, res_num_errors, stats,
                   total, aggregates, inodes, out, roots_log, seen, record_walk>>
    /\ UNCHANGED markVars

\* lines 29-59: one entry of the walk of the current root
WalkEntry(entry) ==
    /\ pc = "walk"
    /\ stats.entries_traversed < MaxEntries
    /\ walked' = IF record_walk THEN Append(walked, entry) ELSE walked
    /\ IF entry.kind = "walk_err"
       THEN /\ stats' = [stats EXCEPT !.entries_traversed = @ + 1]
            /\ num_errors' = num_errors + 1
            /\ pc' = "walk"
            /\ UNCHANGED <<num_bytes, inodes>>
       ELSE LET r == file_size_of(entry, options, inodes) IN
            IF r.panicked
            THEN /\ stats' = [stats EXCEPT !.entries_traversed = @ + 1]
                 /\ pc' = "panicked"
                 /\ UNCHANGED <<num_bytes, num_errors, inodes>>
            ELSE /\ stats' = [entries_traversed |-> stats.entries_traversed + 1,
                              largest_file_in_bytes |->
                                  Max(stats.largest_file_in_bytes, r.file_size),
                              smallest_file_in_bytes |->
                                  Min(stats.smallest_file_in_bytes, r.file_size)]
                 /\ num_bytes' = num_bytes + r.file_size
                 /\ num_errors' = num_errors + r.errors
                 /\ inodes' = r.inodes
                 /\ pc' = "walk"
    /\ seen' = IF entry.kind = "file" THEN seen \cup {entry.file} ELSE seen
    /\ last' = [entry |-> entry, file_size |-> num_bytes' - num_bytes,
                errors |-> num_errors' - num_errors, was_seen |-> entry.file \in seen]
    /\ UNCHANGED <<options, compute_total, sort_by_size_in_bytes, res_num_errors,
                   total, num_roots, aggregates, out, inodes0, roots_log, record_walk>>
    /\ UNCHANGED markVars

\* lines 62-75: the walk of the current root is exhausted
EndWalk ==
    /\ pc = "walk"
    /\ last' = NoLast
    /\ IF sort_by_size_in_bytes
       THEN /\ aggregates' = Append(aggregates, Line("root", num_roots, num_bytes, num_errors))
            /\ total' = total + num_bytes
            /\ res_num_errors' = res_num_errors + num_errors
            /\ roots_log' = Append(roots_log, [num_bytes |-> num_bytes, num_errors |-> num_errors])
            /\ pc' = "roots"
            /\ UNCHANGED out
       ELSE \E written \in BOOLEAN :
            IF written
            THEN /\ out' = write_path(out, "root", num_roots, num_bytes, num_errors)
                 /\ total' = total + num_bytes
                 /\ res_num_errors' = res_num_errors + num_errors
                 /\ roots_log' = Append(roots_log,
                                        [num_bytes |-> num_bytes, num_errors |-> num_errors])
                 /\ pc' = "roots"
                 /\ UNCHANGED aggregates
            ELSE /\ pc' = "failed"         \* write_path(..)? returns the io::Error
                 /\ UNCHANGED <<out, total, res_num_errors, roots_log, aggregates>>
    /\ UNCHANGED <<options, compute_total, sort_by_size_in_bytes, stats, num_roots, inodes,
                   num_bytes, num_errors, walked, inodes0, seen, record_walk>>
    /\ UNCHANGED markVars

\* lines 78-83: `paths` is exhausted
EndRoots ==
    /\ pc = "roots"
    /\ stats' = IF stats.entries_traversed = 0
                THEN [stats EXCEPT !.smallest_file_in_bytes = 0]
                ELSE stats
    /\ aggregates' = IF sort_by_size_in_bytes THEN sort_by_key(aggregates) ELSE aggregates
    /\ pc' = IF sort_by_size_in_bytes /\ aggregates # <<>> THEN "emit" ELSE "total"
    /\ last' = NoLast
    /\ UNCHANGED <<options, compute_total, sort_by_size_in_bytes, res_num_errors, total,
                   num_roots, inodes, num_bytes, num_errors, out, walked, inodes0,
                   roots_log, seen, record_walk>>
    /\ UNCHANGED markVars

\* lines 84-93: one line of the sorted output
EmitSorted ==
    /\ pc = "emit"
    /\ \E written \in BOOLEAN :
        IF written
        THEN /\ out' = write_path(out, "root", Head(aggregates).root,
                                  Head(aggregates).num_bytes, Head(aggregates).num_errors)
             /\ aggregates' = Tail(aggregates)
             /\ pc' = IF Tail(aggregates) = <<>> THEN "total" ELSE "emit"
        ELSE /\ pc' = "failed"
             /\ UNCHANGED <<out, aggregates>>
    /\ UNCHANGED <<options, compute_total, sort_by_size_in_bytes, res_num_errors, stats, total,
                   num_roots, inodes, num_bytes, num_errors, walked, inodes0, roots_log,
                   seen, last, record_walk>>
    /\ UNCHANGED markVars

\* lines 96-106
WriteTotal ==
    /\ pc = "total"
    /\ IF writes_total(num_roots, compute_total)
       THEN \E written \in BOOLEAN :
            IF written
            THEN /\ out' = write_path(out, "total", 0, total, res_num_errors)
                 /\ pc' = "done"
            ELSE /\ pc' = "failed"
                 /\ UNCHANGED out
       ELSE /\ pc' = "done"
            /\ UNCHANGED out
    /\ UNCHANGED <<options, compute_total, sort_by_size_in_bytes, res_num_errors, stats, total,
                   num_roots, aggregates, inodes, num_bytes, num_errors, walked, inodes0,
                   roots_log, seen, last, record_walk>>
    /\ UNCHANGED markVars

Next ==
    \/ NextRoot
    \/ \E entry \in Entries : WalkEntry(entry)
    \/ EndWalk
    \/ EndRoots
    \/ EmitSorted
    \/ WriteTotal

Spec == Init /\ [][Next]_vars
SpecOrder == InitOrder /\ [][Next]_vars

(***************************************************************************)
(* Claims about aggregate                                                  *)
(***************************************************************************)
RECURSIVE SumBytes(_)
SumBytes(s) == IF s = <<>> THEN 0 ELSE Head(s).num_bytes + SumBytes(Tail(s))
RECURSIVE SumErrors(_)
SumErrors(s) == IF s = <<>> THEN 0 ELSE Head(s).num_errors + SumErrors(Tail(s))

RootLineIndices == {i \in 1..Len(out) : out[i].kind = "root"}
TotalLineIndices == {i \in 1..Len(out) : out[i].kind = "total"}

\* C2: with sort_by_size_in_bytes set, no line is written before every root has
\* been walked; the per-root lines come in non-decreasing order of num_bytes, roots
\* with equal num_bytes in the order they were supplied; and a call that returns
\* has written exactly one line per root, carrying that root's bytes and errors.
C2_SortedOutput ==
    sort_by_size_in_bytes =>
        /\ pc \in {"roots", "walk"} => out = <<>>
        /\ \A i, j \in RootLineIndices :
              i < j => \/ out[i].num_bytes < out[j].num_bytes
                       \/ /\ out[i].num_bytes = out[j].num_bytes
                          /\ out[i].root < out[j].root
        /\ pc = "done" =>
              /\ Cardinality(RootLineIndices) = num_roots
              /\ \A i \in RootLineIndices :
                    /\ out[i].root \in 1..Len(roots_log)
                    /\ out[i].num_bytes = roots_log[out[i].root].num_bytes
                    /\ out[i].num_errors = roots_log[out[i].root].num_errors

\* a sorted run of three roots that had to be reordered and that holds a tie
C2_Witness ==
    /\ sort_by_size_in_bytes
    /\ pc = "done"
    /\ \E i, j \in RootLineIndices : i < j /\ out[i].root > out[j].root
    /\ \E i, j \in RootLineIndices : i < j /\ out[i].num_bytes = out[j].num_bytes

\* C3: the returned Statistics have smallest_file_in_bytes <= largest_file_in_bytes
\* whenever entries_traversed > 0.
C3_SmallestLeLargest ==
    (pc = "done" /\ stats.entries_traversed > 0)
        => stats.smallest_file_in_bytes <= stats.largest_file_in_bytes

\* C4: an entry that is a walk error, or whose metadata is an error or None, adds
\* no bytes, adds exactly one to the root's num_errors, and the walk goes on.
C4_ErrorsCountedWalkContinues ==
    last.entry.kind \in {"walk_err", "meta_err", "meta_none"}
        => /\ last.file_size = 0
           /\ last.errors = 1
           /\ pc = "walk"

own_size(entry) ==
    IF options.apparent_size THEN len(entry.file)
    ELSE IF entry.real_ok THEN real_size(entry.file) ELSE 0

\* C6: without count_hard_links, of the files sharing a (device, inode) pair only
\* the first one met in the call contributes (its own size), every later one
\* contributes 0 bytes; with count_hard_links the inode filter stays untouched and
\* every file contributes its own size.
C6_HardLinksOnce ==
    /\ options.count_hard_links => inodes = InodeFilter_default
    /\ last.entry.kind = "file" =>
          IF options.count_hard_links
          THEN last.file_size = own_size(last.entry)
          ELSE /\ last.was_seen => last.file_size = 0
               /\ ~last.was_seen => last.file_size = own_size(last.entry)
               /\ last.entry.file \in inodes

\* a second link to a file already counted, in a later root, contributes nothing
C6_Witness ==
    /\ ~options.count_hard_links
    /\ last.entry.kind = "file"
    /\ last.was_seen
    /\ own_size(last.entry) > 0
    /\ last.file_size = 0
    /\ num_roots = 2
    /\ total > 0

\* the walk of one root as a function of the entries it yields: lines 27-60
RECURSIVE walk_root(_, _, _)
walk_root(entries, opts, filter) ==
    IF entries = <<>> THEN [num_bytes |-> 0, num_errors |-> 0, inodes |-> filter]
    ELSE LET e == Head(entries)
             r == file_size_of(e, opts, filter)
             rest == walk_root(Tail(entries), opts,
                               IF e.kind = "walk_err" THEN filter ELSE r.inodes)
         IN  IF e.kind = "walk_err"
             THEN [rest EXCEPT !.num_errors = @ + 1]
             ELSE [rest EXCEPT !.num_bytes = @ + r.file_size, !.num_errors = @ + r.errors]

Orders(n) == {p \in [1..n -> 1..n] : \A i, j \in 1..n : i # j => p[i] # p[j]}
Permuted(s, p) == [i \in 1..Len(s) |-> s[p[i]]]

\* C7: the root's num_bytes, and the grand total, are the same for every order in
\* which the walk could have yielded the root's entries.
C7_OrderInvariant ==
    (record_walk /\ pc \in {"walk", "roots"} /\ num_roots > 0)
        => \A p \in Orders(Len(walked)) :
              LET other == walk_root(Permuted(walked, p), options, inodes0) IN
              /\ pc = "walk" => other.num_bytes = num_bytes
              /\ (pc = "roots" /\ Len(roots_log) = num_roots)
                    => total = SumBytes(SubSeq(roots_log, 1, num_roots - 1)) + other.num_bytes

(***************************************************************************)
(* MarkPane                                                                *)
(*                                                                         *)
(* The caller holds an Option<MarkPane>: toggle_index consumes the pane    *)
(* and returns None when no mark is left, and a toggle with no pane        *)
(* starts from MarkPane::default().  None of `selected` is written -1.     *)
(***************************************************************************)
TreeIndex == 0..MaxIndex
\* tree.node_weight(index) is Some: the last handle is not a node of the tree
node_weight_is_some(index) == index < MaxIndex
\* e.size of the node
node_size(index) == index + 1
path_of(index) == <<"root", index>>

None == -1

Pane(sel, m, focus, lsi) ==
    [selected |-> sel, marked |-> m, has_focus |-> focus, last_sorting_index |-> lsi]
MarkPane_default == Pane(None, <<>>, FALSE, 0)
self == Pane(selected, marked, has_focus, last_sorting_index)

\* a set_focus that never clears the selection
set_focus_selected_kept(focus, n) == saturating_sub(n, 1)

\* lines 51-58
set_focus_selected(focus, n) == IF focus THEN saturating_sub(n, 1) ELSE None
set_focus(p, focus) ==
    [p EXCEPT !.has_focus = focus,
              !.selected = set_focus_selected(focus, Cardinality(DOMAIN p.marked))]

\* a sorting index that is not advanced
next_sorting_index_same(lsi) == lsi

\* line 63
next_sorting_index(lsi) == lsi + 1

\* a toggle whose Occupied arm leaves the mark in place
toggle_entry_kept(p, index) ==
    IF index \notin DOMAIN p.marked /\ node_weight_is_some(index)
    THEN [p EXCEPT !.last_sorting_index = p.last_sorting_index + 1,
                   !.marked = [i \in DOMAIN p.marked \cup {index} |->
                                  IF i = index
                                  THEN [size |-> node_size(index), path |-> path_of(index),
                                        index |-> p.last_sorting_index + 1]
                                  ELSE p.marked[i]]]
    ELSE p

\* lines 60-75: the pane after the match
toggle_entry(p, index) ==
    IF index \notin DOMAIN p.marked
    THEN IF node_weight_is_some(index)
         THEN LET sorting_index == next_sorting_index(p.last_sorting_index) IN
              [p EXCEPT !.last_sorting_index = sorting_index,
                        !.marked = [i \in DOMAIN p.marked \cup {index} |->
                                       IF i = index
                                       THEN [size |-> node_size(index),
                                             path |-> path_of(index),
                                             index |-> sorting_index]
                                       ELSE p.marked[i]]]
         ELSE p
    ELSE [p EXCEPT !.marked = [i \in DOMAIN p.marked \ {index} |-> p.marked[i]]]

\* lines 59-81: Option<Self>
toggle_index(p, index) ==
    LET q == toggle_entry(p, index) IN
    IF DOMAIN q.marked = {} THEN [some |-> FALSE, pane |-> MarkPane_default]
    ELSE [some |-> TRUE, pane |-> q]

\* CursorDirection::move_cursor; a page is taken as 10 entries
page_size == 10
move_cursor(direction, n) ==
    CASE direction = "Down" -> n + 1
      [] direction = "Up" -> saturating_sub(n, 1)
      [] direction = "PageDown" -> n + page_size
      [] direction = "PageUp" -> saturating_sub(n, page_size)

\* lines 95-101
change_selection(p, direction) ==
    [p EXCEPT !.selected =
        IF p.selected = None THEN None
        ELSE Min(move_cursor(direction, p.selected),
                 saturating_sub(Cardinality(DOMAIN p.marked), 1))]

Keys == {"Ctrl_u", "PageUp", "k", "Up", "j", "Down", "Ctrl_d", "PageDown", "other"}

\* lines 85-93
key(p, k) ==
    CASE k \in {"Ctrl_u", "PageUp"} -> change_selection(p, "PageUp")
      [] k \in {"k", "Up"} -> change_selection(p, "Up")
      [] k \in {"j", "Down"} -> change_selection(p, "Down")
      [] k \in {"Ctrl_d", "PageDown"} -> change_selection(p, "PageDown")
      [] OTHER -> p

\* lines 116-118: the handles in display order, marked.values() (ascending
\* handle) sorted by sort index with a stable sort
RECURSIVE values(_)
values(m) ==
    IF DOMAIN m = {} THEN <<>>
    ELSE LET k == CHOOSE x \in DOMAIN m : \A y \in DOMAIN m : x <= y IN
         <<[handle |-> k, index |-> m[k].index]>>
             \o values([i \in DOMAIN m \ {k} |-> m[i]])

RECURSIVE insert_by_index(_, _)
insert_by_index(sorted, x) ==
    IF sorted = <<>> THEN <<x>>
    ELSE IF Head(sorted).index <= x.index
         THEN <<Head(sorted)>> \o insert_by_index(Tail(sorted), x)
         ELSE <<x>> \o sorted

RECURSIVE sorted_by_key(_)
sorted_by_key(s) ==
    IF s = <<>> THEN <<>>
    ELSE insert_by_index(sorted_by_key(SubSeq(s, 1, Len(s) - 1)), s[Len(s)])

entries == sorted_by_key(values(marked))

(***************************************************************************)
(* The calls on the pane                                                   *)
(***************************************************************************)
AggregateIdle ==
    /\ options = [count_hard_links |-> FALSE, apparent_size |-> FALSE]
    /\ compute_total = FALSE
    /\ sort_by_size_in_bytes = FALSE
    /\ pc = "idle"
    /\ res_num_errors = 0
    /\ stats = Statistics_default
    /\ total = 0
    /\ num_roots = 0
    /\ aggregates = <<>>
    /\ inodes = InodeFilter_default
    /\ num_bytes = 0
    /\ num_errors = 0
    /\ out = <<>>
    /\ record_walk = FALSE
    /\ walked = <<>>
    /\ inodes0 = {}
    /\ roots_log = <<>>
    /\ seen = {}
    /\ last = NoLast

InitMark == MarkIdle /\ AggregateIdle

Snapshot == [selected |-> selected, handles |-> DOMAIN marked, has_focus |-> has_focus,
             last_sorting_index |-> last_sorting_index]

Become(p) ==
    /\ selected' = p.selected
    /\ marked' = p.marked
    /\ has_focus' = p.has_focus
    /\ last_sorting_index' = p.last_sorting_index

Called(name, arg) ==
    /\ op1' = [name |-> name, arg |-> arg]
    /\ op2' = op1
    /\ before1' = Snapshot
    /\ before2' = before1.handles

SetFocus(focus) ==
    /\ pane_some
    /\ Become(set_focus(self, focus))
    /\ Called(IF focus THEN "set_focus_true" ELSE "set_focus_false", 0)
    /\ UNCHANGED <<pane_some, clock, marked_at>>
    /\ UNCHANGED aggVars

Key(k) ==
    /\ pane_some
    /\ Become(key(self, k))
    /\ Called("key", 0)
    /\ UNCHANGED <<pane_some, clock, marked_at>>
    /\ UNCHANGED aggVars

\* mark_pane.take().unwrap_or_default().toggle_index(index, tree)
ToggleIndex(index) ==
    LET r == toggle_index(self, index) IN
    /\ index \in DOMAIN marked \/ last_sorting_index < MaxSortIndex
    /\ pane_some' = r.some
    /\ Become(r.pane)
    /\ Called("toggle_index", index)
    /\ clock' = IF r.some THEN (IF index \in DOMAIN r.pane.marked \ DOMAIN marked
                                THEN clock + 1 ELSE clock)
                ELSE 0
    /\ marked_at' = [i \in DOMAIN r.pane.marked |->
                        IF i \in DOMAIN marked THEN marked_at[i] ELSE clock + 1]
    /\ UNCHANGED aggVars

NextMark ==
    \/ \E focus \in BOOLEAN : SetFocus(focus)
    \/ \E k \in Keys : Key(k)
    \/ \E index \in TreeIndex : ToggleIndex(index)

SpecMark == InitMark /\ [][NextMark]_vars

(***************************************************************************)
(* Claims about MarkPane                                                   *)
(***************************************************************************)
Toggled == op1.name = "toggle_index"
ToggledTwice == Toggled /\ op2.name = "toggle_index" /\ op1.arg = op2.arg

\* C1: toggling the same handle twice in succession leaves the set of marked
\* handles as it was (no pane left counts as the empty set).
C1_ToggleInvolution == ToggledTwice => DOMAIN marked = before2

\* a mark among others removed and put back, with a new sort index
C1_Witness ==
    /\ ToggledTwice
    /\ op1.arg \in before2
    /\ Cardinality(before2) >= 2
    /\ DOMAIN marked = before2
    /\ marked[op1.arg].index > Cardinality(before2)

Inserted == Toggled /\ pane_some /\ op1.arg \in DOMAIN marked /\ op1.arg \notin before1.handles
Removed == Toggled /\ pane_some /\ op1.arg \in before1.handles

\* C8: a new mark gets sort index last_sorting_index + 1, which becomes the new
\* last_sorting_index; the marks of the pane have pairwise distinct sort indices;
\* the display order (ascending sort index) is the order in which the marks were
\* last marked; removing a mark does not lower last_sorting_index.
C8_SortIndexChronological ==
    pane_some =>
        /\ Inserted => /\ marked[op1.arg].index = before1.last_sorting_index + 1
                       /\ last_sorting_index = before1.last_sorting_index + 1
        /\ \A a, b \in DOMAIN marked : a # b => marked[a].index # marked[b].index
        /\ \A a \in DOMAIN marked : marked[a].index <= last_sorting_index
        /\ Len(entries) = Cardinality(DOMAIN marked)
        /\ \A i, j \in 1..Len(entries) :
              i < j => marked_at[entries[i].handle] < marked_at[entries[j].handle]
        /\ Removed => last_sorting_index >= before1.last_sorting_index

\* three marks displayed in an order that is not the order of their handles,
\* after a mark was removed
C8_Witness ==
    /\ pane_some
    /\ Len(entries) = 3
    /\ entries[1].handle > entries[2].handle
    /\ last_sorting_index > 3
    /\ Inserted

\* C9: a selection is present exactly when the pane has focus; set_focus(true)
\* selects the last entry, len - 1 (0 on a pane without marks), set_focus(false)
\* clears the selection, and a key neither creates nor removes a selection.
C9_SelectionIffFocus ==
    pane_some =>
        /\ (selected # None) <=> has_focus
        /\ op1.name = "set_focus_true" =>
              /\ has_focus
              /\ selected = saturating_sub(Cardinality(DOMAIN marked), 1)
              /\ marked # <<>> => selected = Cardinality(DOMAIN marked) - 1
        /\ op1.name = "set_focus_false" => ~has_focus /\ selected = None
        /\ op1.name = "key" => /\ (selected = None) <=> (before1.selected = None)
                               /\ has_focus = before1.has_focus

\* a focused pane that lost focus again
C9_Witness ==
    /\ pane_some
    /\ op1.name = "set_focus_false"
    /\ before1.selected = 1
    /\ before1.has_focus
    /\ selected = None
    /\ Cardinality(DOMAIN marked) = 2

\* C10: on a pane with marks, a present selection is a position of the mark
\* list: selected < number of marks.
C10_SelectionInBounds ==
    (pane_some /\ marked # <<>> /\ selected # None) => selected < Cardinality(DOMAIN marked)

====
